---- MODULE Spec2Model ----
(***************************************************************************)
(* CHIP-8 emulator (priyank6378/chip8-emulator).                           *)
(*                                                                         *)
(* Two programs live in the repository:                                    *)
(*   src/src/chip8emu.cpp   the SDL emulator: interpreter loop, timer      *)
(*                          thread, key thread (definitions without a      *)
(*                          suffix)                                        *)
(*   src/unnamed/part_000   the earlier single-threaded emulator           *)
(*                          (definitions with the suffix _p0)              *)
(*                                                                         *)
(* A machine state is a record of the globals of the program.  An opcode   *)
(* handler is an operator from a machine state and an instruction word to  *)
(* the SET of machine states the handler can leave: one state for most     *)
(* handlers, several where the result depends on rand() or on undefined    *)
(* behaviour (an index outside an array, back() of an empty vector).       *)
(***************************************************************************)
EXTENDS Integers, Sequences, FiniteSets, TLC

VARIABLES
    m_GameMemory,      \* BYTE m_GameMemory[0xfff]
    m_Registers,       \* BYTE m_Registers[16]
    m_AddressI,        \* WORD m_AddressI
    m_ProgramCounter,  \* WORD m_ProgramCounter
    m_stack,           \* std::vector<WORD> m_stack
    m_ScreenData,      \* BYTE m_ScreenData[64][32], as the set of <<x, y>> holding 1
    m_KeysPressed,     \* bool m_KeysPressed[16]
    m_DelayTimer,      \* std::atomic<Uint8> m_DelayTimer
    m_SoundTimer,      \* std::atomic<Uint8> m_SoundTimer
    ProgramRunning,    \* std::atomic<bool> ProgramRunning
    window,            \* SDL_Window* window: "open" or "destroyed"
    fault,             \* "none", "ub" (undefined behaviour was executed), "crash"
    access,            \* m_GameMemory indices used by the last loop iteration
    main_pc,           \* position of RunEmulator
    timer_pc,          \* position of decreseTimer
    key_pc,            \* position of keyUpdate
    ticks,             \* iterations of decreseTimer's loop started so far
    events,            \* SDL events delivered to keyUpdate so far
    trace              \* the instructions executed so far, each with the state before it

vars == << m_GameMemory, m_Registers, m_AddressI, m_ProgramCounter, m_stack,
           m_ScreenData, m_KeysPressed, m_DelayTimer, m_SoundTimer,
           ProgramRunning, window, fault, access, main_pc, timer_pc, key_pc,
           ticks, events, trace >>

----------------------------------------------------------------------------
(* Program constants *)

MemSize == 4095
ScreenCols == 64
ScreenRows == 32
ProgramStart == 512
FontBytes == 80
NumKeys == 16

(* Bounds of the model *)

MaxSteps == 3
MaxTicks == 2
MaxEvents == 1

Byte == 0..255
Word == 0..65535
VF == 15

(* Values an out-of-range read can return, and that back() of an empty
   vector can return. *)
GarbageBytes == {0, 255}
GarbageWords == {0, 4094}

(* Values of rand() the model draws from. *)
RandValues == {0, 1, 170, 255, 256, 2147483647}

----------------------------------------------------------------------------
(* Bit operations of C on non-negative integers *)

RECURSIVE BitAnd(_, _)
BitAnd(a, b) ==
    IF a = 0 \/ b = 0 THEN 0
    ELSE (a % 2) * (b % 2) + 2 * BitAnd(a \div 2, b \div 2)

RECURSIVE BitOr(_, _)
BitOr(a, b) ==
    IF a = 0 THEN b
    ELSE IF b = 0 THEN a
    ELSE (IF a % 2 = 1 \/ b % 2 = 1 THEN 1 ELSE 0) + 2 * BitOr(a \div 2, b \div 2)

RECURSIVE BitXor(_, _)
BitXor(a, b) ==
    IF a = 0 THEN b
    ELSE IF b = 0 THEN a
    ELSE ((a + b) % 2) + 2 * BitXor(a \div 2, b \div 2)

(* Fields of an instruction word *)
RegX(opcode) == BitAnd(opcode, \hF00) \div 256
RegY(opcode) == BitAnd(opcode, \h0F0) \div 16
FieldN(opcode) == BitAnd(opcode, \h00F)
FieldNN(opcode) == BitAnd(opcode, \h0FF)
FieldNNN(opcode) == BitAnd(opcode, \hFFF)

InMemory(a) == a \in 0..(MemSize - 1)

----------------------------------------------------------------------------
(* The machine state the opcode handlers work on: the globals of lines 23-31,
   with fault and access carried along. *)

Machine ==
    [ mem |-> m_GameMemory, V |-> m_Registers, I |-> m_AddressI,
      PC |-> m_ProgramCounter, stack |-> m_stack, screen |-> m_ScreenData,
      keys |-> m_KeysPressed, DT |-> m_DelayTimer, ST |-> m_SoundTimer,
      fault |-> fault, access |-> access ]

(* The process dies (a segmentation fault, a sanitizer abort). *)
Crash(s) == [s EXCEPT !.fault = "crash"]

(* m_GameMemory[a] read: the byte when a is an index of the array, else any
   byte (the read is undefined behaviour). *)
ReadMemory(s, a) == IF InMemory(a) THEN {s.mem[a]} ELSE GarbageBytes

(* m_GameMemory[a] = v: lands in the array when a is an index of it, else
   outside it (undefined behaviour; the array itself is unchanged). *)
WriteMemory(s, a, v) ==
    IF InMemory(a)
    THEN [s EXCEPT !.mem[a] = v, !.access = @ \cup {a}]
    ELSE [s EXCEPT !.fault = "ub", !.access = @ \cup {a}]

(* BYTE m_keyMappings[16]: 'x','1','2','3','q','w','e','a','s','d','z','c',
   '4','r','f','v' as character codes, indexed from 0. *)
m_keyMappings ==
    [i \in 0..15 |->
        << 120, 49, 50, 51, 113, 119, 101, 97,
           115, 100, 122, 99, 52, 114, 102, 118 >>[i + 1]]

(* BYTE fontset[80] of CPUReset *)
fontset ==
    << \hF0, \h90, \h90, \h90, \hF0,
       \h20, \h60, \h20, \h20, \h70,
       \hF0, \h10, \hF0, \h80, \hF0,
       \hF0, \h10, \hF0, \h10, \hF0,
       \h90, \h90, \hF0, \h10, \h10,
       \hF0, \h80, \hF0, \h10, \hF0,
       \hF0, \h80, \hF0, \h90, \hF0,
       \hF0, \h10, \h20, \h40, \h40,
       \hF0, \h90, \hF0, \h90, \hF0,
       \hF0, \h90, \hF0, \h10, \hF0,
       \hF0, \h90, \hF0, \h90, \h90,
       \hE0, \h90, \hE0, \h90, \hE0,
       \hF0, \h80, \h80, \h80, \hF0,
       \hE0, \h90, \h90, \h90, \hE0,
       \hF0, \h80, \hF0, \h80, \hF0,
       \hF0, \h80, \hF0, \h80, \h80 >>

----------------------------------------------------------------------------
(* Opcode handlers of src/src/chip8emu.cpp.  m_ProgramCounter was already
   advanced past the instruction by GetNextOpcode. *)

Opcode0NNN(s, opcode) == {s}

(* A memset of sizeof(m_ScreenData[0]) bytes: column 0 alone is cleared. *)
Opcode00E0_first_column(s, opcode) ==
    {[s EXCEPT !.screen = { p \in @ : p[1] # 0 }]}

(* memset(m_ScreenData, 0, sizeof(m_ScreenData)), lines 71-73 *)
Opcode00E0(s, opcode) == {[s EXCEPT !.screen = {}]}

(* m_stack[m_stack.size()-1] and pop_back() of an empty vector are undefined:
   the process dies, or a word from outside the vector lands in PC. *)
Opcode00EE(s, opcode) ==
    IF Len(s.stack) > 0
    THEN {[s EXCEPT !.PC = s.stack[Len(s.stack)],
                    !.stack = SubSeq(s.stack, 1, Len(s.stack) - 1)]}
    ELSE {Crash(s)} \cup {[s EXCEPT !.PC = g, !.fault = "ub"] : g \in GarbageWords}

Opcode1NNN(s, opcode) == {[s EXCEPT !.PC = FieldNNN(opcode)]}

Opcode2NNN(s, opcode) ==
    {[s EXCEPT !.stack = Append(s.stack, s.PC), !.PC = FieldNNN(opcode)]}

Opcode3XNN(s, opcode) ==
    LET x == RegX(opcode)
        nn == FieldNN(opcode)
    IN  {IF s.V[x] = nn THEN [s EXCEPT !.PC = (s.PC + 2) % 65536] ELSE s}

Opcode4XNN(s, opcode) ==
    LET x == s.V[RegX(opcode)]
        nn == FieldNN(opcode)
    IN  {IF x # nn THEN [s EXCEPT !.PC = (s.PC + 2) % 65536] ELSE s}

Opcode5XY0(s, opcode) ==
    LET x == s.V[RegX(opcode)]
        y == s.V[RegY(opcode)]
    IN  {IF x = y THEN [s EXCEPT !.PC = (s.PC + 2) % 65536] ELSE s}

Opcode6XNN(s, opcode) == {[s EXCEPT !.V[RegX(opcode)] = FieldNN(opcode)]}

Opcode7XNN(s, opcode) ==
    {[s EXCEPT !.V[RegX(opcode)] = (@ + FieldNN(opcode)) % 256]}

Opcode8XY0(s, opcode) == {[s EXCEPT !.V[RegX(opcode)] = s.V[RegY(opcode)]]}

Opcode8XY1(s, opcode) ==
    {[s EXCEPT !.V[RegX(opcode)] = BitOr(@, s.V[RegY(opcode)])]}

Opcode8XY2(s, opcode) ==
    {[s EXCEPT !.V[RegX(opcode)] = BitAnd(@, s.V[RegY(opcode)])]}

Opcode8XY3(s, opcode) ==
    {[s EXCEPT !.V[RegX(opcode)] = BitXor(@, s.V[RegY(opcode)])]}

(* sum is taken first; then VF is written, and after it VX. *)
Opcode8XY4(s, opcode) ==
    LET x == RegX(opcode)
        y == RegY(opcode)
        sum == s.V[x] + s.V[y]
        V1 == [s.V EXCEPT ![VF] = IF sum > 255 THEN 1 ELSE 0]
    IN  {[s EXCEPT !.V = [V1 EXCEPT ![x] = BitAnd(sum, \hFF)]]}

(* VF = 1 is written before xval and yval are read. *)
Opcode8XY5(s, opcode) ==
    LET V1 == [s.V EXCEPT ![VF] = 1]
        regx == RegX(opcode)
        regy == RegY(opcode)
        xval == V1[regx]
        yval == V1[regy]
        V2 == IF yval > xval THEN [V1 EXCEPT ![VF] = 0] ELSE V1
    IN  {[s EXCEPT !.V = [V2 EXCEPT ![regx] = (xval - yval + 256) % 256]]}

Opcode8XY6(s, opcode) ==
    LET x == RegX(opcode)
        V1 == [s.V EXCEPT ![VF] = BitAnd(s.V[x], 1)]
    IN  {[s EXCEPT !.V = [V1 EXCEPT ![x] = V1[x] \div 2]]}

Opcode8XY7(s, opcode) ==
    LET V1 == [s.V EXCEPT ![VF] = 1]
        regx == RegX(opcode)
        regy == RegY(opcode)
        xval == V1[regx]
        yval == V1[regy]
        V2 == IF xval > yval THEN [V1 EXCEPT ![VF] = 0] ELSE V1
    IN  {[s EXCEPT !.V = [V2 EXCEPT ![regx] = (yval - xval + 256) % 256]]}

Opcode8XYE(s, opcode) ==
    LET x == RegX(opcode)
        V1 == [s.V EXCEPT ![VF] = s.V[x] \div 128]
    IN  {[s EXCEPT !.V = [V1 EXCEPT ![x] = (V1[x] * 2) % 256]]}

Opcode9XY0(s, opcode) ==
    {IF s.V[RegX(opcode)] # s.V[RegY(opcode)]
     THEN [s EXCEPT !.PC = (s.PC + 2) % 65536] ELSE s}

OpcodeANNN(s, opcode) == {[s EXCEPT !.I = FieldNNN(opcode)]}

OpcodeBNNN(s, opcode) == {[s EXCEPT !.PC = s.V[0] + FieldNNN(opcode)]}

(* rand() & NN, stored into a BYTE *)
OpcodeCXNN(s, opcode) ==
    {[s EXCEPT !.V[RegX(opcode)] = BitAnd(r, FieldNN(opcode)) % 256] : r \in RandValues}

(* The loops of OpcodeDXYN (lines 234-251).  d is the pair [screen, vf];
   rows[yline] is the byte read from m_GameMemory[I + yline].  DrawRow is the
   inner loop over the 8 bits of one byte, DrawLoop the outer loop. *)
(* DrawRow with the pixel set (|=) where the code toggles it (^=): the
   variant the draw-twice property has to tell from the code. *)
RECURSIVE DrawRow_or(_, _, _, _, _)
DrawRow_or(d, data, coordx, y0, xpixel) ==
    IF xpixel >= 8 THEN d
    ELSE LET xpixelinv == 7 - xpixel
             mask == 2 ^ xpixelinv
             x == (coordx + xpixel) % ScreenCols
             y == y0 % ScreenRows
             lit == <<x, y>> \in d.screen
         IN  DrawRow_or(IF BitAnd(data, mask) # 0
                        THEN [screen |-> d.screen \cup {<<x, y>>},
                              vf |-> IF lit THEN 1 ELSE d.vf]
                        ELSE d,
                        data, coordx, y0, xpixel + 1)

(* One row of the sprite, lines 236-250: the pixels of data from bit 7 down.
   dd is d as a value, so that each pixel is worked out once. *)
RECURSIVE DrawRow(_, _, _, _, _)
DrawRow(d, data, coordx, y0, xpixel) ==
    IF xpixel >= 8 THEN d
    ELSE LET xpixelinv == 7 - xpixel
             mask == 2 ^ xpixelinv
             x == (coordx + xpixel) % ScreenCols
             y == y0 % ScreenRows
         IN  CHOOSE r \in
                 { DrawRow(IF BitAnd(data, mask) # 0
                           THEN [screen |-> IF <<x, y>> \in dd.screen
                                            THEN dd.screen \ {<<x, y>>}
                                            ELSE dd.screen \cup {<<x, y>>},
                                 vf |-> IF <<x, y>> \in dd.screen THEN 1 ELSE dd.vf]
                           ELSE dd,
                           data, coordx, y0, xpixel + 1) : dd \in {d} } : TRUE

(* The rows of the sprite, lines 234-251 *)
RECURSIVE DrawLoop(_, _, _, _, _, _)
DrawLoop(d, rows, coordx, coordy, height, yline) ==
    IF yline >= height THEN d
    ELSE CHOOSE r \in
             { DrawLoop(DrawRow(dd, rows[yline], coordx, coordy + yline, 0),
                        rows, coordx, coordy, height, yline + 1) : dd \in {d} } : TRUE

(* The bytes m_GameMemory[I + yline], yline < height: the sprite when every
   index is in the array, else any byte for the rows outside it. *)
SpriteRows(s, height) ==
    IF \A r \in 0..(height - 1) : InMemory(s.I + r)
    THEN {[r \in 0..(height - 1) |-> s.mem[s.I + r]]}
    ELSE {[r \in 0..(height - 1) |->
              IF InMemory(s.I + r) THEN s.mem[s.I + r] ELSE g] : g \in GarbageBytes}

OpcodeDXYN(s, opcode) ==
    LET regx == RegX(opcode)
        regy == RegY(opcode)
        height == FieldN(opcode)
        coordx == s.V[regx]
        coordy == s.V[regy]
        inside == \A r \in 0..(height - 1) : InMemory(s.I + r)
        Drawn(rows) ==
            LET d == DrawLoop([screen |-> s.screen, vf |-> 0], rows,
                              coordx, coordy, height, 0)
            IN  [s EXCEPT !.V = [s.V EXCEPT ![VF] = d.vf],
                          !.screen = d.screen,
                          !.access = @ \cup {s.I + r : r \in 0..(height - 1)},
                          !.fault = IF inside THEN @ ELSE "ub"]
    IN  {Drawn(rows) : rows \in SpriteRows(s, height)}
        \cup (IF inside THEN {} ELSE {Crash(s)})

(* m_KeysPressed[VX]: an index above 15 is outside the array, and the test
   can go either way. *)
OpcodeEX9E(s, opcode) ==
    LET k == s.V[RegX(opcode)]
        skip == [s EXCEPT !.PC = (s.PC + 2) % 65536]
    IN  IF k < NumKeys
        THEN {IF s.keys[k] THEN skip ELSE s}
        ELSE {[skip EXCEPT !.fault = "ub"], [s EXCEPT !.fault = "ub"]}

OpcodeEXA1(s, opcode) ==
    LET k == s.V[RegX(opcode)]
        skip == [s EXCEPT !.PC = (s.PC + 2) % 65536]
    IN  IF k < NumKeys
        THEN {IF ~s.keys[k] THEN skip ELSE s}
        ELSE {[skip EXCEPT !.fault = "ub"], [s EXCEPT !.fault = "ub"]}

OpcodeFX07(s, opcode) == {[s EXCEPT !.V[RegX(opcode)] = s.DT]}

(* The loop over the 16 keys (lines 276-281): every pressed key writes VX, so
   the last pressed one stays. *)
RECURSIVE KeyScan(_, _, _, _)
KeyScan(V, keys, regx, i) ==
    IF i >= NumKeys THEN V
    ELSE KeyScan(IF keys[i] THEN [V EXCEPT ![regx] = m_keyMappings[i]] ELSE V,
                 keys, regx, i + 1)

(* OpcodeFX0A without line 283: PC is not moved back when no key is down. *)
OpcodeFX0A_goes_on(s, opcode) ==
    {[s EXCEPT !.V = KeyScan(s.V, s.keys, RegX(opcode), 0)]}

OpcodeFX0A(s, opcode) ==
    LET regx == RegX(opcode)
        keypressed == \E i \in 0..(NumKeys - 1) : s.keys[i]
    IN  {[s EXCEPT !.V = KeyScan(s.V, s.keys, regx, 0),
                   !.PC = IF keypressed THEN @ ELSE (@ + 65536 - 2) % 65536]}

OpcodeFX15(s, opcode) == {[s EXCEPT !.DT = s.V[RegX(opcode)]]}

OpcodeFX18(s, opcode) == {[s EXCEPT !.ST = s.V[RegX(opcode)]]}

OpcodeFX1E(s, opcode) == {[s EXCEPT !.I = (@ + s.V[RegX(opcode)]) % 65536]}

OpcodeFX29(s, opcode) ==
    LET regx == RegX(opcode)
    IN  {[s EXCEPT !.I = s.mem[s.V[regx]], !.access = @ \cup {s.V[regx]}]}

OpcodeFX33(s, opcode) ==
    LET value == s.V[RegX(opcode)]
        hundreds == value \div 100
        tens == (value \div 10) % 10
        units == value % 10
        s1 == WriteMemory(s, s.I, hundreds)
        s2 == WriteMemory(s1, s.I + 1, tens)
        s3 == WriteMemory(s2, s.I + 2, units)
    IN  {s3} \cup (IF InMemory(s.I + 2) /\ InMemory(s.I) THEN {} ELSE {Crash(s)})

(* for (i = 0; i <= regx; i++) m_GameMemory[tmp_addressI++] = m_Registers[i] *)
RECURSIVE DumpLoop(_, _, _)
DumpLoop(s, regx, i) ==
    IF i > regx THEN s
    ELSE DumpLoop(WriteMemory(s, s.I + i, s.V[i]), regx, i + 1)

OpcodeFX55(s, opcode) ==
    LET regx == RegX(opcode)
    IN  {DumpLoop(s, regx, 0)}
        \cup (IF InMemory(s.I + regx) /\ InMemory(s.I) THEN {} ELSE {Crash(s)})

(* for (i = 0; i <= regx; i++) m_Registers[i] = m_GameMemory[tmp_addressI++] *)
RECURSIVE LoadLoop(_, _, _, _)
LoadLoop(s, regx, i, g) ==
    IF i > regx THEN s
    ELSE LoadLoop([s EXCEPT !.V[i] = IF InMemory(s.I + i) THEN s.mem[s.I + i] ELSE g,
                            !.access = @ \cup {s.I + i},
                            !.fault = IF InMemory(s.I + i) THEN @ ELSE "ub"],
                  regx, i + 1, g)

OpcodeFX65(s, opcode) ==
    LET regx == RegX(opcode)
        inside == InMemory(s.I + regx) /\ InMemory(s.I)
    IN  IF inside THEN {LoadLoop(s, regx, 0, 0)}
        ELSE {LoadLoop(s, regx, 0, g) : g \in GarbageBytes} \cup {Crash(s)}

(* The fetch with the two bytes the other way round: low byte first. *)
GetNextOpcode_low_byte_first(s) ==
    LET pc == s.PC
        Fetched(hi, lo) ==
            [opcode |-> BitOr(lo * 256, hi),
             st |-> [s EXCEPT !.PC = (pc + 2) % 65536,
                              !.access = {pc, pc + 1},
                              !.fault = IF InMemory(pc) /\ InMemory(pc + 1)
                                        THEN @ ELSE "ub"]]
    IN  {Fetched(hi, lo) : hi \in ReadMemory(s, pc), lo \in ReadMemory(s, pc + 1)}
        \cup (IF InMemory(pc) /\ InMemory(pc + 1) THEN {}
              ELSE {[opcode |-> 0, st |-> [Crash(s) EXCEPT !.access = {pc, pc + 1}]]})

(* GetNextOpcode (lines 394-402): big-endian word at PC, then PC += 2.  The
   result is the set of pairs [opcode, st]. *)
GetNextOpcode(s) ==
    LET pc == s.PC
        Fetched(hi, lo) ==
            [opcode |-> BitOr(hi * 256, lo),
             st |-> [s EXCEPT !.PC = (pc + 2) % 65536,
                              !.access = {pc, pc + 1},
                              !.fault = IF InMemory(pc) /\ InMemory(pc + 1)
                                        THEN @ ELSE "ub"]]
    IN  {Fetched(hi, lo) : hi \in ReadMemory(s, pc), lo \in ReadMemory(s, pc + 1)}
        \cup (IF InMemory(pc) /\ InMemory(pc + 1) THEN {}
              ELSE {[opcode |-> 0, st |-> [Crash(s) EXCEPT !.access = {pc, pc + 1}]]})

----------------------------------------------------------------------------
(* Opcode handlers of src/unnamed/part_000, where they differ from those of
   src/src/chip8emu.cpp.  Opcode0NNN, Opcode00E0, Opcode1NNN, Opcode2NNN,
   Opcode4XNN, Opcode5XY0, Opcode6XNN, Opcode7XNN, Opcode8XY0 .. Opcode8XY3,
   OpcodeANNN, OpcodeBNNN, OpcodeFX1E, OpcodeFX29, OpcodeFX33 and
   GetNextOpcode have the same text in both files. *)

Opcode00EE_p0(s, opcode) == {s}

(* x is the masked field itself, neither shifted nor a register. *)
Opcode3XNN_p0(s, opcode) ==
    LET x == BitAnd(opcode, \hF00)
        nn == FieldNN(opcode)
    IN  {IF x = nn THEN [s EXCEPT !.PC = (s.PC + 2) % 65536] ELSE s}

(* VX += VY first; the test then adds VY to the new VX. *)
Opcode8XY4_p0(s, opcode) ==
    LET x == RegX(opcode)
        y == RegY(opcode)
        V1 == [s.V EXCEPT ![x] = (s.V[x] + s.V[y]) % 256]
    IN  {[s EXCEPT !.V = IF V1[x] + V1[y] > 255 THEN [V1 EXCEPT ![VF] = 1] ELSE V1]}

Opcode8XY5_p0(s, opcode) ==
    LET V1 == [s.V EXCEPT ![VF] = 1]
        regx == RegX(opcode)
        regy == RegY(opcode)
        xval == V1[regx]
        yval == V1[regy]
        V2 == IF yval > xval THEN [V1 EXCEPT ![VF] = 0] ELSE V1
    IN  {[s EXCEPT !.V = [V2 EXCEPT ![regx] = (xval - yval + 256) % 256]]}

Opcode8XY6_p0(s, opcode) == {[s EXCEPT !.V[RegX(opcode)] = @ \div 2]}

Opcode8XY7_p0(s, opcode) ==
    {[s EXCEPT !.V[RegX(opcode)] = (s.V[RegY(opcode)] - @ + 256) % 256]}

Opcode8XYE_p0(s, opcode) == {[s EXCEPT !.V[RegX(opcode)] = @ \div 2]}

Opcode9XY0_p0(s, opcode) ==
    {IF s.V[RegX(opcode)] = s.V[RegY(opcode)]
     THEN [s EXCEPT !.PC = (s.PC + 2) % 65536] ELSE s}

(* rand() % 256 + NN, stored into a BYTE *)
OpcodeCXNN_p0(s, opcode) ==
    {[s EXCEPT !.V[RegX(opcode)] = ((r % 256) + FieldNN(opcode)) % 256] : r \in RandValues}

(* m_ScreenData[x][y] without the two modulo operations: x runs to 262 and y
   to 269.  An index pair that still falls in the 64*32 bytes of the array
   addresses the byte x*32 + y of it; one that does not is outside the array:
   it reads as set or clear (oob), and the write lands outside. *)
RECURSIVE DrawRow_p0(_, _, _, _, _, _)
DrawRow_p0(d, data, coordx, y, xpixel, oob) ==
    IF xpixel >= 8 THEN d
    ELSE LET xpixelinv == 7 - xpixel
             mask == 2 ^ xpixelinv
             x == coordx + xpixel
             flat == x * ScreenRows + y
             inside == flat < ScreenCols * ScreenRows
             px == << flat \div ScreenRows, flat % ScreenRows >>
             lit == IF inside THEN px \in d.screen ELSE oob
         IN  DrawRow_p0(IF BitAnd(data, mask) # 0
                        THEN [screen |-> IF ~inside THEN d.screen
                                         ELSE IF lit THEN d.screen \ {px}
                                         ELSE d.screen \cup {px},
                              vf |-> IF lit THEN 1 ELSE d.vf,
                              bad |-> d.bad \/ x >= ScreenCols \/ y >= ScreenRows]
                        ELSE d,
                        data, coordx, y, xpixel + 1, oob)

RECURSIVE DrawLoop_p0(_, _, _, _, _, _, _)
DrawLoop_p0(d, rows, coordx, coordy, height, yline, oob) ==
    IF yline >= height \/ d.vf > 1 THEN d
    ELSE DrawLoop_p0(DrawRow_p0(d, rows[yline], coordx, coordy + yline, 0, oob),
                     rows, coordx, coordy, height, yline + 1, oob)

OpcodeDXYN_p0(s, opcode) ==
    LET regx == RegX(opcode)
        regy == RegY(opcode)
        height == FieldN(opcode)
        coordx == s.V[regx]
        coordy == s.V[regy]
        inside == \A r \in 0..(height - 1) : InMemory(s.I + r)
        Loop(rows, oob) ==
            DrawLoop_p0([screen |-> s.screen, vf |-> 0, bad |-> FALSE], rows,
                        coordx, coordy, height, 0, oob)
        Drawn(d) ==
            [s EXCEPT !.V = [s.V EXCEPT ![VF] = d.vf],
                      !.screen = d.screen,
                      !.access = @ \cup {s.I + r : r \in 0..(height - 1)},
                      !.fault = IF inside /\ ~d.bad THEN @ ELSE "ub"]
        results == {Loop(rows, oob) : rows \in SpriteRows(s, height), oob \in BOOLEAN}
    IN  {Drawn(d) : d \in results}
        \cup (IF inside /\ \A d \in results : ~d.bad THEN {} ELSE {Crash(s)})

(* Empty bodies in this file. *)
OpcodeEX9E_p0(s, opcode) == {s}
OpcodeEXA1_p0(s, opcode) == {s}
OpcodeFX07_p0(s, opcode) == {s}
OpcodeFX0A_p0(s, opcode) == {s}
OpcodeFX15_p0(s, opcode) == {s}
OpcodeFX18_p0(s, opcode) == {s}

(* for (i = 0; i < regx; i++) m_GameMemory[tmp_addressI++] = m_Registers[i] *)
RECURSIVE DumpLoop_p0(_, _, _)
DumpLoop_p0(s, regx, i) ==
    IF i >= regx THEN s
    ELSE DumpLoop_p0(WriteMemory(s, s.I + i, s.V[i]), regx, i + 1)

OpcodeFX55_p0(s, opcode) ==
    LET regx == RegX(opcode)
    IN  {DumpLoop_p0(s, regx, 0)}
        \cup (IF regx = 0 \/ (InMemory(s.I + regx - 1) /\ InMemory(s.I))
              THEN {} ELSE {Crash(s)})

(* for (i = 0; i < regx; i++) m_Registers[i] = m_GameMemory[tmp_addressI++] *)
RECURSIVE LoadLoop_p0(_, _, _, _)
LoadLoop_p0(s, regx, i, g) ==
    IF i >= regx THEN s
    ELSE LoadLoop_p0([s EXCEPT !.V[i] = IF InMemory(s.I + i) THEN s.mem[s.I + i] ELSE g,
                               !.access = @ \cup {s.I + i},
                               !.fault = IF InMemory(s.I + i) THEN @ ELSE "ub"],
                     regx, i + 1, g)

OpcodeFX65_p0(s, opcode) ==
    LET regx == RegX(opcode)
        inside == regx = 0 \/ (InMemory(s.I + regx - 1) /\ InMemory(s.I))
    IN  IF inside THEN {LoadLoop_p0(s, regx, 0, 0)}
        ELSE {LoadLoop_p0(s, regx, 0, g) : g \in GarbageBytes} \cup {Crash(s)}

----------------------------------------------------------------------------
(* The switch of RunEmulator (lines 478-615): the handler an instruction
   word is dispatched to, "none" when no case of an inner switch matches. *)
Decode(opcode) ==
    LET msb == BitAnd(opcode, \hF000) \div 4096
    IN  CASE msb = 0 -> IF BitAnd(opcode, \h00F) = 0 THEN "00E0"
                        ELSE IF BitAnd(opcode, \hF00) = 0 THEN "00EE"
                        ELSE "0NNN"
          [] msb = 1 -> "1NNN"
          [] msb = 2 -> "2NNN"
          [] msb = 3 -> "3XNN"
          [] msb = 4 -> "4XNN"
          [] msb = 5 -> "5XY0"
          [] msb = 6 -> "6XNN"
          [] msb = 7 -> "7XNN"
          [] msb = 8 -> LET lsb == BitAnd(opcode, \h00F)
                        IN  CASE lsb = 0 -> "8XY0"
                              [] lsb = 1 -> "8XY1"
                              [] lsb = 2 -> "8XY2"
                              [] lsb = 3 -> "8XY3"
                              [] lsb = 4 -> "8XY4"
                              [] lsb = 5 -> "8XY5"
                              [] lsb = 6 -> "8XY6"
                              [] lsb = 7 -> "8XY7"
                              [] lsb = 14 -> "8XYE"
                              [] OTHER -> "none"
          [] msb = 9 -> "9XY0"
          [] msb = 10 -> "ANNN"
          [] msb = 11 -> "BNNN"
          [] msb = 12 -> "CXNN"
          [] msb = 13 -> "DXYN"
          [] msb = 14 -> IF BitAnd(opcode, \h00F) = 1 THEN "EXA1" ELSE "EX9E"
          [] OTHER -> LET lsb == BitAnd(opcode, \h0FF)
                      IN  CASE lsb = \h07 -> "FX07"
                            [] lsb = \h0A -> "FX0A"
                            [] lsb = \h15 -> "FX15"
                            [] lsb = \h18 -> "FX18"
                            [] lsb = \h1E -> "FX1E"
                            [] lsb = \h29 -> "FX29"
                            [] lsb = \h33 -> "FX33"
                            [] lsb = \h55 -> "FX55"
                            [] lsb = \h65 -> "FX65"
                            [] OTHER -> "none"

(* The handler called for each name. *)
Handler(name, s, opcode) ==
    CASE name = "00E0" -> Opcode00E0(s, opcode)
      [] name = "00EE" -> Opcode00EE(s, opcode)
      [] name = "0NNN" -> Opcode0NNN(s, opcode)
      [] name = "1NNN" -> Opcode1NNN(s, opcode)
      [] name = "2NNN" -> Opcode2NNN(s, opcode)
      [] name = "3XNN" -> Opcode3XNN(s, opcode)
      [] name = "4XNN" -> Opcode4XNN(s, opcode)
      [] name = "5XY0" -> Opcode5XY0(s, opcode)
      [] name = "6XNN" -> Opcode6XNN(s, opcode)
      [] name = "7XNN" -> Opcode7XNN(s, opcode)
      [] name = "8XY0" -> Opcode8XY0(s, opcode)
      [] name = "8XY1" -> Opcode8XY1(s, opcode)
      [] name = "8XY2" -> Opcode8XY2(s, opcode)
      [] name = "8XY3" -> Opcode8XY3(s, opcode)
      [] name = "8XY4" -> Opcode8XY4(s, opcode)
      [] name = "8XY5" -> Opcode8XY5(s, opcode)
      [] name = "8XY6" -> Opcode8XY6(s, opcode)
      [] name = "8XY7" -> Opcode8XY7(s, opcode)
      [] name = "8XYE" -> Opcode8XYE(s, opcode)
      [] name = "9XY0" -> Opcode9XY0(s, opcode)
      [] name = "ANNN" -> OpcodeANNN(s, opcode)
      [] name = "BNNN" -> OpcodeBNNN(s, opcode)
      [] name = "CXNN" -> OpcodeCXNN(s, opcode)
      [] name = "DXYN" -> OpcodeDXYN(s, opcode)
      [] name = "EX9E" -> OpcodeEX9E(s, opcode)
      [] name = "EXA1" -> OpcodeEXA1(s, opcode)
      [] name = "FX07" -> OpcodeFX07(s, opcode)
      [] name = "FX0A" -> OpcodeFX0A(s, opcode)
      [] name = "FX15" -> OpcodeFX15(s, opcode)
      [] name = "FX18" -> OpcodeFX18(s, opcode)
      [] name = "FX1E" -> OpcodeFX1E(s, opcode)
      [] name = "FX29" -> OpcodeFX29(s, opcode)
      [] name = "FX33" -> OpcodeFX33(s, opcode)
      [] name = "FX55" -> OpcodeFX55(s, opcode)
      [] name = "FX65" -> OpcodeFX65(s, opcode)
      [] OTHER -> {s}

(* The handler called for each name in src/unnamed/part_000 (the switch,
   lines 327-459, is that of chip8emu.cpp). *)
Handler_p0(name, s, opcode) ==
    CASE name = "00E0" -> Opcode00E0(s, opcode)
      [] name = "00EE" -> Opcode00EE_p0(s, opcode)
      [] name = "0NNN" -> Opcode0NNN(s, opcode)
      [] name = "1NNN" -> Opcode1NNN(s, opcode)
      [] name = "2NNN" -> Opcode2NNN(s, opcode)
      [] name = "3XNN" -> Opcode3XNN_p0(s, opcode)
      [] name = "4XNN" -> Opcode4XNN(s, opcode)
      [] name = "5XY0" -> Opcode5XY0(s, opcode)
      [] name = "6XNN" -> Opcode6XNN(s, opcode)
      [] name = "7XNN" -> Opcode7XNN(s, opcode)
      [] name = "8XY0" -> Opcode8XY0(s, opcode)
      [] name = "8XY1" -> Opcode8XY1(s, opcode)
      [] name = "8XY2" -> Opcode8XY2(s, opcode)
      [] name = "8XY3" -> Opcode8XY3(s, opcode)
      [] name = "8XY4" -> Opcode8XY4_p0(s, opcode)
      [] name = "8XY5" -> Opcode8XY5_p0(s, opcode)
      [] name = "8XY6" -> Opcode8XY6_p0(s, opcode)
      [] name = "8XY7" -> Opcode8XY7_p0(s, opcode)
      [] name = "8XYE" -> Opcode8XYE_p0(s, opcode)
      [] name = "9XY0" -> Opcode9XY0_p0(s, opcode)
      [] name = "ANNN" -> OpcodeANNN(s, opcode)
      [] name = "BNNN" -> OpcodeBNNN(s, opcode)
      [] name = "CXNN" -> OpcodeCXNN_p0(s, opcode)
      [] name = "DXYN" -> OpcodeDXYN_p0(s, opcode)
      [] name = "EX9E" -> OpcodeEX9E_p0(s, opcode)
      [] name = "EXA1" -> OpcodeEXA1_p0(s, opcode)
      [] name = "FX07" -> OpcodeFX07_p0(s, opcode)
      [] name = "FX0A" -> OpcodeFX0A_p0(s, opcode)
      [] name = "FX15" -> OpcodeFX15_p0(s, opcode)
      [] name = "FX18" -> OpcodeFX18_p0(s, opcode)
      [] name = "FX1E" -> OpcodeFX1E(s, opcode)
      [] name = "FX29" -> OpcodeFX29(s, opcode)
      [] name = "FX33" -> OpcodeFX33(s, opcode)
      [] name = "FX55" -> OpcodeFX55_p0(s, opcode)
      [] name = "FX65" -> OpcodeFX65_p0(s, opcode)
      [] OTHER -> {s}

----------------------------------------------------------------------------
(* Actions *)

(* The globals take the values of machine state t. *)
Store(t) ==
    /\ m_GameMemory' = t.mem
    /\ m_Registers' = t.V
    /\ m_AddressI' = t.I
    /\ m_ProgramCounter' = t.PC
    /\ m_stack' = t.stack
    /\ m_ScreenData' = t.screen
    /\ m_KeysPressed' = t.keys
    /\ m_DelayTimer' = t.DT
    /\ m_SoundTimer' = t.ST
    /\ fault' = t.fault
    /\ access' = t.access

machineVars == << m_GameMemory, m_Registers, m_AddressI, m_ProgramCounter,
                  m_stack, m_ScreenData, m_KeysPressed, m_DelayTimer,
                  m_SoundTimer, fault, access >>

(* The loop test of line 476 without the test: while (true). *)
LoopTest_ignores_stop ==
    /\ main_pc = "while"
    /\ fault # "crash"
    /\ Len(trace) < MaxSteps
    /\ main_pc' = "body"
    /\ UNCHANGED << machineVars, ProgramRunning, window, timer_pc, key_pc,
                    ticks, events, trace >>

(* while (ProgramRunning), line 476 *)
LoopTest ==
    /\ main_pc = "while"
    /\ fault # "crash"
    /\ Len(trace) < MaxSteps \/ ~ProgramRunning
    /\ main_pc' = IF ProgramRunning THEN "body" ELSE "stop"
    /\ UNCHANGED << machineVars, ProgramRunning, window, timer_pc, key_pc,
                    ticks, events, trace >>

(* What an entry of trace keeps of the state before the instruction: all of
   the machine state but the memory array. *)
Snapshot ==
    [ V |-> m_Registers, I |-> m_AddressI, PC |-> m_ProgramCounter,
      stack |-> m_stack, screen |-> m_ScreenData, keys |-> m_KeysPressed,
      DT |-> m_DelayTimer, ST |-> m_SoundTimer, fault |-> fault ]

(* One iteration of the loop body, lines 477-615: the fetch, the switch and
   the handler the instruction is dispatched to. *)
RunEmulatorBody ==
    /\ main_pc = "body"
    /\ fault # "crash"
    /\ \E f \in GetNextOpcode(Machine) :
          /\ f.st.fault # "crash"
          /\ \E name \in {Decode(f.opcode)} :
                 /\ \E t \in Handler(name, f.st, f.opcode) : Store(t)
                 /\ trace' = Append(trace, [op |-> name, opcode |-> f.opcode,
                                            pre |-> Snapshot, ticks |-> ticks,
                                            tpc |-> timer_pc])
                 /\ main_pc' = IF name = "DXYN" /\ fault' # "crash"
                               THEN "present" ELSE "while"
    /\ UNCHANGED << ProgramRunning, window, timer_pc, key_pc, ticks, events >>

(* The fetch reads outside m_GameMemory and the process dies. *)
FetchCrash ==
    /\ main_pc = "body"
    /\ fault # "crash"
    /\ \E f \in GetNextOpcode(Machine) :
          /\ f.st.fault = "crash"
          /\ Store(f.st)
    /\ UNCHANGED << ProgramRunning, window, main_pc, timer_pc, key_pc, ticks,
                    events, trace >>

(* loadSurfaceFromMatrix(); SDL_UpdateWindowSurface(window), lines 570-572:
   with the window destroyed both use freed objects. *)
Present ==
    /\ main_pc = "present"
    /\ fault # "crash"
    /\ IF window = "open" THEN fault' = fault ELSE fault' \in {"ub", "crash"}
    /\ main_pc' = "while"
    /\ UNCHANGED << m_GameMemory, m_Registers, m_AddressI, m_ProgramCounter,
                    m_stack, m_ScreenData, m_KeysPressed, m_DelayTimer,
                    m_SoundTimer, access, ProgramRunning, window, timer_pc,
                    key_pc, ticks, events, trace >>

(* ProgramRunning = false, line 618 *)
MainStop ==
    /\ main_pc = "stop"
    /\ fault # "crash"
    /\ ProgramRunning' = FALSE
    /\ main_pc' = "join_timer"
    /\ UNCHANGED << machineVars, window, timer_pc, key_pc, ticks, events, trace >>

(* timer_thread.join(), line 619 *)
JoinTimer ==
    /\ main_pc = "join_timer"
    /\ fault # "crash"
    /\ timer_pc = "exited"
    /\ main_pc' = "join_key"
    /\ UNCHANGED << machineVars, ProgramRunning, window, timer_pc, key_pc,
                    ticks, events, trace >>

(* key_update.join(), line 620 *)
JoinKey ==
    /\ main_pc = "join_key"
    /\ fault # "crash"
    /\ key_pc = "exited"
    /\ main_pc' = "done"
    /\ UNCHANGED << machineVars, ProgramRunning, window, timer_pc, key_pc,
                    ticks, events, trace >>

(* decreseTimer, lines 430-438 *)

(* while (ProgramRunning) and the sleep of one tick *)
TimerWhile ==
    /\ timer_pc = "while"
    /\ fault # "crash"
    /\ ticks < MaxTicks \/ ~ProgramRunning
    /\ timer_pc' = IF ProgramRunning THEN "test" ELSE "exited"
    /\ ticks' = IF ProgramRunning THEN ticks + 1 ELSE ticks
    /\ UNCHANGED << machineVars, ProgramRunning, window, main_pc, key_pc,
                    events, trace >>

(* if (m_DelayTimer > 0): one atomic load *)
TimerTest ==
    /\ timer_pc = "test"
    /\ fault # "crash"
    /\ timer_pc' = IF m_DelayTimer > 0 THEN "dec" ELSE "while"
    /\ UNCHANGED << machineVars, ProgramRunning, window, main_pc, key_pc,
                    ticks, events, trace >>

(* m_DelayTimer--: one atomic decrement of a Uint8 *)
TimerDec ==
    /\ timer_pc = "dec"
    /\ fault # "crash"
    /\ m_DelayTimer' = (m_DelayTimer + 255) % 256
    /\ timer_pc' = "while"
    /\ UNCHANGED << m_GameMemory, m_Registers, m_AddressI, m_ProgramCounter,
                    m_stack, m_ScreenData, m_KeysPressed, m_SoundTimer, fault,
                    access, ProgramRunning, window, main_pc, key_pc, ticks,
                    events, trace >>

(* keyUpdate, lines 440-461 *)

(* Key symbols the model's input source produces: '1', 'v', and 'p', which
   is no key of key_to_index. *)
PhysicalKeys == {49, 118, 112}

(* key_to_index[key] (lines 42-47, 451): the int key is converted to char;
   operator[] of the map inserts 0 for a key that is not in it. *)
KeyToIndex(sym) ==
    LET c == sym % 256
    IN  IF \E i \in 0..(NumKeys - 1) : m_keyMappings[i] = c
        THEN CHOOSE i \in 0..(NumKeys - 1) : m_keyMappings[i] = c
        ELSE 0

(* while (ProgramRunning), line 442 *)
KeyWhile ==
    /\ key_pc = "while"
    /\ fault # "crash"
    /\ key_pc' = IF ProgramRunning THEN "poll" ELSE "exited"
    /\ UNCHANGED << machineVars, ProgramRunning, window, main_pc, timer_pc,
                    ticks, events, trace >>

(* SDL_PollEvent returns 0: SDL_Delay, then back to the outer loop. *)
KeyIdle ==
    /\ key_pc = "poll"
    /\ fault # "crash"
    /\ key_pc' = "while"
    /\ UNCHANGED << machineVars, ProgramRunning, window, main_pc, timer_pc,
                    ticks, events, trace >>

(* SDL_QUIT: SDL_DestroyWindow(window); SDL_Quit(), lines 445-446 *)
KeyQuitDestroy ==
    /\ key_pc = "poll"
    /\ fault # "crash"
    /\ window = "open"
    /\ events < MaxEvents
    /\ events' = events + 1
    /\ window' = "destroyed"
    /\ key_pc' = "quit"
    /\ UNCHANGED << machineVars, ProgramRunning, main_pc, timer_pc, ticks, trace >>

(* ProgramRunning = false, line 447 *)
KeyQuitStop ==
    /\ key_pc = "quit"
    /\ fault # "crash"
    /\ ProgramRunning' = FALSE
    /\ key_pc' = "poll"
    /\ UNCHANGED << machineVars, window, main_pc, timer_pc, ticks, events, trace >>

(* SDL_KEYDOWN, lines 449-452 *)
KeyDownOn(key) ==
    /\ key_pc = "poll"
    /\ fault # "crash"
    /\ window = "open"
    /\ events < MaxEvents
    /\ events' = events + 1
    /\ m_KeysPressed' = [m_KeysPressed EXCEPT ![KeyToIndex(key)] = TRUE]
    /\ UNCHANGED << m_GameMemory, m_Registers, m_AddressI, m_ProgramCounter,
                    m_stack, m_ScreenData, m_DelayTimer, m_SoundTimer, fault,
                    access, ProgramRunning, window, main_pc, timer_pc, key_pc,
                    ticks, trace >>

(* The event is for one of the keys the input source produces. *)
KeyDown == \E key \in PhysicalKeys : KeyDownOn(key)

(* SDL_KEYUP, lines 453-456 *)
KeyUpOn(key) ==
    /\ key_pc = "poll"
    /\ fault # "crash"
    /\ window = "open"
    /\ events < MaxEvents
    /\ events' = events + 1
    /\ m_KeysPressed' = [m_KeysPressed EXCEPT ![KeyToIndex(key)] = FALSE]
    /\ UNCHANGED << m_GameMemory, m_Registers, m_AddressI, m_ProgramCounter,
                    m_stack, m_ScreenData, m_DelayTimer, m_SoundTimer, fault,
                    access, ProgramRunning, window, main_pc, timer_pc, key_pc,
                    ticks, trace >>

(* The event is for one of the keys the input source produces. *)
KeyUp == \E key \in PhysicalKeys : KeyUpOn(key)

----------------------------------------------------------------------------
(* Program images *)

(* The bytes of a sequence of instruction words, high byte first. *)
Assemble(words) ==
    [i \in 1..(2 * Len(words)) |->
        IF i % 2 = 1 THEN words[(i + 1) \div 2] \div 256
        ELSE words[i \div 2] % 256]

(* m_GameMemory after CPUReset (lines 350-391) of a process that just
   started, for a file holding the bytes rom: the globals are zero, the 80
   font bytes go to 0..79, fread copies the file to 0x200 onwards. *)
ResetMemory(rom) ==
    [a \in 0..(MemSize - 1) |->
        IF a < FontBytes THEN fontset[a + 1]
        ELSE IF a >= ProgramStart /\ a - ProgramStart < Len(rom)
             THEN rom[a - ProgramStart + 1]
        ELSE 0]

(* The program files the emulator is started on: between them they hold
   every instruction the interpreter knows. *)
Programs ==
    { << \h6005, \hF015, \hF115 >>,       \* delay timer set to 5, then to 0
      << \h6002, \hF015, \hF007 >>,       \* delay timer set to 2 and read back
      << \h6102, \hF118, \hF118 >>,       \* sound timer set to 2
      << \h2204, \h00EE, \h00EE >>,       \* call 0x204, return, return
      << \h00EE >>,                       \* return with nothing to return to
      << \h6F02, \h6103, \h8F14 >>,       \* VF = VF + V1
      << \h6F07, \h6103, \h81F5 >>,       \* V1 = V1 - VF
      << \h1FFE >>,                       \* jump to the last two bytes
      << \hB204, \h0123, \h3000 >>,
      << \h4000, \h5010, \h9010 >>,
      << \h60FF, \h7002, \h8104 >>,
      << \h8010, \h8011, \h8012 >>,
      << \h6AC8, \h8A13, \h8A15 >>,
      << \h6B07, \h8B06, \h8BB7 >>,
      << \h6F81, \h8FFE, \h8009 >>,
      << \hA000, \hD125, \hD125 >>,       \* glyph 0 drawn twice at (0, 0)
      << \hC10F, \hE19E, \hE1A1 >>,
      << \hF10A, \hF0FF >>,               \* wait for a key
      << \h600A, \hF029, \hF01E >>,
      << \hAFFE, \h619C, \hF133 >>,       \* BCD of 156 at 0xFFE
      << \hA300, \hF155, \hF165 >> }

(* The state in which RunEmulator enters its loop: CPUReset has returned and
   both threads are started (lines 467-474). *)
Init ==
    /\ \E program \in Programs : m_GameMemory = ResetMemory(Assemble(program))
    /\ m_Registers = [i \in 0..15 |-> 0]
    /\ m_AddressI = 0
    /\ m_ProgramCounter = ProgramStart
    /\ m_stack = << >>
    /\ m_ScreenData = {}
    /\ m_KeysPressed = [i \in 0..(NumKeys - 1) |-> FALSE]
    /\ m_DelayTimer = 0
    /\ m_SoundTimer = 0
    /\ ProgramRunning = TRUE
    /\ window = "open"
    /\ fault = "none"
    /\ access = {}
    /\ main_pc = "while"
    /\ timer_pc = "while"
    /\ key_pc = "while"
    /\ ticks = 0
    /\ events = 0
    /\ trace = << >>

(* The interpreter thread *)
Interpreter == LoopTest \/ RunEmulatorBody \/ FetchCrash \/ Present

Next ==
    \/ Interpreter
    \/ MainStop \/ JoinTimer \/ JoinKey
    \/ TimerWhile \/ TimerTest \/ TimerDec
    \/ KeyWhile \/ KeyIdle \/ KeyQuitDestroy \/ KeyQuitStop \/ KeyDown \/ KeyUp

Spec == Init /\ [][Next]_vars

----------------------------------------------------------------------------
(* States of a running emulator, for the specifications that check single
   instructions: the interpreter is about to fetch at PC, the registers, I,
   the stack and the screen hold values an earlier part of the program left
   there, and code gives the instruction words (and sprite data) in memory. *)

ByteSamples == {0, 1, 2, 127, 128, 129, 254, 255}
FlagSamples == {0, 9}
RegPairs == { <<1, 2>>, <<1, 1>>, <<15, 1>>, <<1, 15>>, <<15, 15>>, <<0, 14>> }

ZeroRegisters == [i \in 0..15 |-> 0]
NoKeys == [i \in 0..(NumKeys - 1) |-> FALSE]

BaseScenario ==
    [ V |-> ZeroRegisters, I |-> 0, PC |-> ProgramStart, stack |-> << >>,
      screen |-> {}, keys |-> NoKeys, DT |-> 0, ST |-> 0,
      code |-> [a \in {} |-> 0] ]

(* mem with the words of code stored high byte first at their addresses *)
RECURSIVE WithWords(_, _, _)
WithWords(mem, code, todo) ==
    IF todo = {} THEN mem
    ELSE LET a == CHOOSE x \in todo : TRUE
         IN  WithWords([mem EXCEPT ![a] = code[a] \div 256, ![a + 1] = code[a] % 256],
                       code, todo \ {a})

(* The instruction word 8XYn, DXYn, 5XY0, 9XY0 *)
WordXY(group, x, y, n) == group * 4096 + x * 256 + y * 16 + n

(* One register-to-register instruction of group 8 on sampled operands *)
AluScenarios ==
    { [BaseScenario EXCEPT
          !.V = [[[ZeroRegisters EXCEPT ![VF] = f] EXCEPT ![r[1]] = a]
                     EXCEPT ![r[2]] = b],
          !.code = (ProgramStart :> WordXY(8, r[1], r[2], n))] :
        n \in (0..8) \cup {14}, r \in RegPairs,
        a \in ByteSamples, b \in ByteSamples, f \in FlagSamples }

(* A call, a return at the call's target, and a return after the call *)
CallScenarios ==
    { [BaseScenario EXCEPT
          !.stack = st,
          !.code = (ProgramStart :> (\h2000 + target)) @@ (target :> \h00EE)
                   @@ ((ProgramStart + 2) :> \h00EE)] :
        st \in { << >>, << \h300 >>, << \h300, \h400 >> },
        target \in { \h202, \h204, \h300, \hFFC } }

(* Sprite data stored at 0x300 *)
SpriteWords ==
    (\h300 :> \hFF81) @@ (\h302 :> \hA500) @@ (\h304 :> \h18FF) @@ (\h306 :> \h0180)
    @@ (\h308 :> \h5555) @@ (\h30A :> \hAAAA) @@ (\h30C :> \hF00F) @@ (\h30E :> \h3CC3)

ScreenSamples ==
    { {},
      { <<0, 0>>, <<1, 0>>, <<63, 31>>, <<62, 0>> },
      { <<x, y>> : x \in 0..9, y \in 0..5 } \cup { <<x, 31>> : x \in 58..63 } }

(* The same draw instruction twice in a row *)
DrawScenarios ==
    { [BaseScenario EXCEPT
          !.V = [[ZeroRegisters EXCEPT ![r[1]] = cx] EXCEPT ![r[2]] = cy],
          !.I = i,
          !.screen = scr,
          !.code = (ProgramStart :> WordXY(13, r[1], r[2], n))
                   @@ ((ProgramStart + 2) :> WordXY(13, r[1], r[2], n))
                   @@ SpriteWords] :
        r \in { <<1, 2>>, <<1, 1>>, <<15, 2>>, <<2, 15>> },
        cx \in {0, 60, 63, 255}, cy \in {0, 30, 31, 255},
        n \in {0, 1, 5, 15}, i \in {0, \h300}, scr \in ScreenSamples }

(* FX29 on sampled register values *)
FontScenarios ==
    { [BaseScenario EXCEPT !.V[1] = v, !.code = (ProgramStart :> \hF129)] :
        v \in (0..17) \cup {255} }

(* I moved by FX1E, then an instruction that uses memory at I; and jumps
   that leave PC at the end of memory or past it *)
EdgeScenarios ==
    { [BaseScenario EXCEPT
          !.V[1] = v, !.I = i,
          !.code = (ProgramStart :> \hF11E) @@ ((ProgramStart + 2) :> w)] :
        v \in {0, 3}, i \in { \hFFA, \hFFE, \hFFFF },
        w \in { \hD001, \hD00F, \hF133, \hF155, \hF165, \hF055, \hF065 } }
    \cup
    { [BaseScenario EXCEPT !.V[0] = v, !.code = (ProgramStart :> w)] :
        v \in {0, 2}, w \in { \hBFFF, \hBFFC, \h1FFE, \h1FFC } }

(* Every instruction once, on small register values *)
InstructionWords ==
    { \h00E0, \h00EE, \h0123, \h1204, \h2204, \h3101, \h4101, \h5120, \h61AB,
      \h71FF, \h9120, \hA123, \hB204, \hC10F, \hD125, \hE19E, \hE1A1, \hF107,
      \hF10A, \hF115, \hF118, \hF11E, \hF129, \hF133, \hF255, \hF265, \hF1FF,
      \h8128, \hE1FF, \h0120, \h00E1, \hE101 }

InstructionScenarios ==
    { [BaseScenario EXCEPT !.V[1] = v, !.V[2] = 1, !.I = \h300, !.stack = << \h208 >>,
                           !.screen = scr,
                           !.code = (ProgramStart :> w) @@ SpriteWords] :
        v \in {1, 200}, w \in InstructionWords, scr \in ScreenSamples }

(* Registers V0..VX dumped at 0x300, one register overwritten, and the
   registers loaded back *)
DumpScenarios ==
    { [BaseScenario EXCEPT
          !.V = [i \in 0..15 |-> (17 * i + 3) % 256],
          !.I = \h300,
          !.code = (ProgramStart :> (\hF055 + 256 * x))
                   @@ ((ProgramStart + 2) :> (\h60AB + 256 * r))
                   @@ ((ProgramStart + 4) :> (\hF065 + 256 * x))] :
        x \in {0, 2, 15}, r \in {0, 2, 15} }

Scenarios ==
    AluScenarios \cup CallScenarios \cup DrawScenarios \cup FontScenarios
    \cup EdgeScenarios \cup InstructionScenarios \cup DumpScenarios

(* The state of scenario sc with memory mem; the threads that a
   specification starting here does not schedule stay where they are. *)
InitScenario(sc, mem) ==
    /\ m_GameMemory = WithWords(mem, sc.code, DOMAIN sc.code)
    /\ m_Registers = sc.V
    /\ m_AddressI = sc.I
    /\ m_ProgramCounter = sc.PC
    /\ m_stack = sc.stack
    /\ m_ScreenData = sc.screen
    /\ m_KeysPressed = sc.keys
    /\ m_DelayTimer = sc.DT
    /\ m_SoundTimer = sc.ST
    /\ ProgramRunning = TRUE
    /\ window = "open"
    /\ fault = "none"
    /\ access = {}
    /\ timer_pc = "while"
    /\ key_pc = "while"
    /\ ticks = 0
    /\ events = 0
    /\ trace = << >>

(* m_GameMemory after CPUReset of an empty file *)
EmptyMemory == ResetMemory(<< >>)

(* src/src/chip8emu.cpp, the interpreter thread alone *)
InitCPU ==
    /\ \E sc \in Scenarios : InitScenario(sc, EmptyMemory)
    /\ main_pc = "while"

SpecCPU == InitCPU /\ [][Interpreter]_vars

----------------------------------------------------------------------------
(* src/unnamed/part_000: one thread, while (true) around the same fetch and
   switch (lines 320-462); CPUReset (lines 281-291) loads no font. *)

ResetMemory_p0(rom) ==
    [a \in 0..(MemSize - 1) |->
        IF a >= ProgramStart /\ a - ProgramStart < Len(rom)
        THEN rom[a - ProgramStart + 1]
        ELSE 0]

RunEmulatorBody_p0 ==
    /\ main_pc = "body"
    /\ fault # "crash"
    /\ Len(trace) < MaxSteps
    /\ \E f \in GetNextOpcode(Machine) :
          /\ f.st.fault # "crash"
          /\ LET name == Decode(f.opcode)
             IN  /\ \E t \in Handler_p0(name, f.st, f.opcode) : Store(t)
                 /\ trace' = Append(trace, [op |-> name, opcode |-> f.opcode,
                                            pre |-> Snapshot, ticks |-> ticks,
                                            tpc |-> timer_pc])
    /\ UNCHANGED << ProgramRunning, window, main_pc, timer_pc, key_pc, ticks,
                    events >>

FetchCrash_p0 ==
    /\ main_pc = "body"
    /\ fault # "crash"
    /\ Len(trace) < MaxSteps
    /\ \E f \in GetNextOpcode(Machine) :
          /\ f.st.fault = "crash"
          /\ Store(f.st)
    /\ UNCHANGED << ProgramRunning, window, main_pc, timer_pc, key_pc, ticks,
                    events, trace >>

EmptyMemory_p0 == ResetMemory_p0(<< >>)

InitP0 ==
    /\ \/ \E sc \in Scenarios : InitScenario(sc, EmptyMemory_p0)
       \/ \E program \in Programs :
             InitScenario(BaseScenario, ResetMemory_p0(Assemble(program)))
    /\ main_pc = "body"

NextP0 == RunEmulatorBody_p0 \/ FetchCrash_p0

SpecP0 == InitP0 /\ [][NextP0]_vars

----------------------------------------------------------------------------
(* The interpreter and the key thread on programs that wait for a key
   (FX0A at 0x200 and again at 0x202); the window stays open. *)

KeyScenarios ==
    { [BaseScenario EXCEPT
          !.V[x] = 7,
          !.keys = [NoKeys EXCEPT ![4] = down],
          !.code = (ProgramStart :> (\hF00A + x * 256))
                   @@ ((ProgramStart + 2) :> (\hF00A + x * 256))] :
        x \in {1, 15}, down \in BOOLEAN }

InitKeys ==
    /\ \E sc \in KeyScenarios : InitScenario(sc, EmptyMemory)
    /\ main_pc = "while"

NextKeys ==
    \/ LoopTest \/ RunEmulatorBody
    \/ KeyWhile \/ KeyIdle \/ KeyDown \/ KeyUp

SpecKeys == InitKeys /\ [][NextKeys]_vars

----------------------------------------------------------------------------
(* The three threads under a fair scheduler, on a program that draws and
   then waits for a key while the delay timer runs down.  Each thread that
   can take a step eventually takes one.  The only event the user sends is
   the one that closes the window, and it need not come. *)

StopScenarios ==
    { [BaseScenario EXCEPT
          !.DT = 1,
          !.code = (ProgramStart :> \hD121) @@ ((ProgramStart + 2) :> \hF10A)] }

InitStop ==
    /\ \E sc \in StopScenarios : InitScenario(sc, EmptyMemory)
    /\ main_pc = "while"

MainThread ==
    \/ LoopTest \/ RunEmulatorBody \/ Present
    \/ MainStop \/ JoinTimer \/ JoinKey

TimerThread == TimerWhile \/ TimerTest \/ TimerDec

KeyThread == KeyWhile \/ KeyIdle \/ KeyQuitStop

NextStop == MainThread \/ TimerThread \/ KeyThread \/ KeyQuitDestroy

SpecStop ==
    /\ InitStop
    /\ [][NextStop]_vars
    /\ WF_vars(MainThread)
    /\ WF_vars(TimerThread)
    /\ WF_vars(KeyThread)

----------------------------------------------------------------------------
(* Properties.  LastStep is the instruction the interpreter executed last;
   the globals it left are the current ones until the next instruction is
   appended to trace. *)

LastStep == trace[Len(trace)]
PrevStep == trace[Len(trace) - 1]

(* C1: add-registers (8XY4): for all operand values a = VX, b = VY and every
   register pair X, Y, afterwards VX = (a + b) mod 256 and VF = 1 if
   a + b > 255, else 0. *)
C1_AddRegisters ==
    (Len(trace) > 0 /\ LastStep.op = "8XY4") =>
        LET x == RegX(LastStep.opcode)
            y == RegY(LastStep.opcode)
            a == LastStep.pre.V[x]
            b == LastStep.pre.V[y]
        IN  /\ m_Registers[x] = (a + b) % 256
            /\ m_Registers[VF] = IF a + b > 255 THEN 1 ELSE 0

(* C2: subtract (8XY5, VX = VX - VY) and reverse subtract (8XY7, VX = VY - VX)
   with a destination other than VF: afterwards VF = 0 if and only if the
   subtrahend was greater than the minuend, else 1, and VX is the difference
   mod 256. *)
C2_Subtract ==
    (/\ Len(trace) > 0
     /\ LastStep.op \in {"8XY5", "8XY7"}
     /\ RegX(LastStep.opcode) # VF) =>
        LET x == RegX(LastStep.opcode)
            y == RegY(LastStep.opcode)
            minuend == IF LastStep.op = "8XY5" THEN LastStep.pre.V[x]
                       ELSE LastStep.pre.V[y]
            subtrahend == IF LastStep.op = "8XY5" THEN LastStep.pre.V[y]
                          ELSE LastStep.pre.V[x]
        IN  /\ m_Registers[VF] = IF subtrahend > minuend THEN 0 ELSE 1
            /\ m_Registers[x] = (minuend - subtrahend + 256) % 256

(* The flag a flag-setting instruction of group 8 owes for the register
   values V held before it. *)
FlagOf(op, V, x, y) ==
    CASE op = "8XY4" -> IF V[x] + V[y] > 255 THEN 1 ELSE 0
      [] op = "8XY5" -> IF V[y] > V[x] THEN 0 ELSE 1
      [] op = "8XY7" -> IF V[x] > V[y] THEN 0 ELSE 1
      [] op = "8XY6" -> V[x] % 2
      [] op = "8XYE" -> V[x] \div 128

(* C3: when a flag-setting instruction (8XY4, 8XY5, 8XY7, 8XY6, 8XYE) has
   X = 0xF, VF afterwards is the carry / not-borrow / shifted-out bit of the
   operand values held before the instruction. *)
C3_FlagWrittenLast ==
    (/\ Len(trace) > 0
     /\ LastStep.op \in {"8XY4", "8XY5", "8XY7", "8XY6", "8XYE"}
     /\ RegX(LastStep.opcode) = VF) =>
        m_Registers[VF] = FlagOf(LastStep.op, LastStep.pre.V, VF,
                                 RegY(LastStep.opcode))

(* C4: no step of the timer thread's decrement takes the delay timer from 0
   to 255. *)
C4_TickNeverWraps ==
    [][(timer_pc = "dec" /\ timer_pc' = "while") =>
          ~(m_DelayTimer = 0 /\ m_DelayTimer' = 255)]_vars

Max(a, b) == IF a > b THEN a ELSE b

(* C5: a timer set to n > 0 by FX15 (delay) or FX18 (sound) and not written
   again holds max(n - k, 0) after k whole ticks.  The ticks counted are
   those that ran from start to end after the write: none was under way when
   the timer was written and none is under way now. *)
C5_BothTimersTick ==
    (/\ Len(trace) > 0
     /\ LastStep.op \in {"FX15", "FX18"}
     /\ LastStep.tpc = "while"
     /\ timer_pc = "while"
     /\ LastStep.pre.V[RegX(LastStep.opcode)] > 0) =>
        LET n == LastStep.pre.V[RegX(LastStep.opcode)]
            k == ticks - LastStep.ticks
        IN  IF LastStep.op = "FX15" THEN m_DelayTimer = Max(n - k, 0)
            ELSE m_SoundTimer = Max(n - k, 0)


(* C6: a return (00EE) executed right after a call (2NNN) leaves PC at the
   call's address + 2 and the stack as it was before the call; a return
   always resumes at the most recently pushed address and removes only that
   one (last in, first out). *)
C6_CallThenReturn ==
    /\ (/\ Len(trace) >= 2
        /\ PrevStep.op = "2NNN"
        /\ LastStep.op = "00EE") =>
            /\ m_ProgramCounter = PrevStep.pre.PC + 2
            /\ m_stack = PrevStep.pre.stack
    /\ (/\ Len(trace) >= 1
        /\ LastStep.op = "00EE"
        /\ LastStep.pre.stack # << >>) =>
            /\ m_ProgramCounter = LastStep.pre.stack[Len(LastStep.pre.stack)]
            /\ m_stack = SubSeq(LastStep.pre.stack, 1,
                                Len(LastStep.pre.stack) - 1)

(* C7: a return (00EE) executed with an empty call stack halts the
   interpreter: the running flag is cleared, the stack is still empty, no
   empty stack was popped and PC holds nothing that came from outside the
   stack. *)
C7_ReturnOnEmptyStackHalts ==
    (/\ Len(trace) > 0
     /\ LastStep.op = "00EE"
     /\ LastStep.pre.stack = << >>) =>
        /\ ~ProgramRunning
        /\ fault = "none"
        /\ m_stack = << >>
        /\ m_ProgramCounter = LastStep.pre.PC + 2

(* C8: every memory access of a step (fetch, sprite read, BCD store, register
   dump and load) uses an address in 0x000-0xFFF that lies inside the memory
   array. *)
C8_AccessInRange ==
    \A a \in access : a \in 0 .. \hFFF /\ InMemory(a)

(* C9: drawing the same sprite twice at the same coordinates (same VX, VY, N,
   I and sprite bytes) leaves the framebuffer as it was before the first of
   the two draws. *)
C9_DrawTwiceRestores ==
    (/\ Len(trace) >= 2
     /\ PrevStep.op = "DXYN"
     /\ LastStep.op = "DXYN"
     /\ LastStep.opcode = PrevStep.opcode
     /\ LastStep.pre.I = PrevStep.pre.I
     /\ LastStep.pre.V[RegX(LastStep.opcode)]
            = PrevStep.pre.V[RegX(PrevStep.opcode)]
     /\ LastStep.pre.V[RegY(LastStep.opcode)]
            = PrevStep.pre.V[RegY(PrevStep.opcode)]
     /\ fault = "none") =>
        m_ScreenData = PrevStep.pre.screen

(* A second identical draw has just finished; the first one changed the
   picture, with a sprite that crosses the right or the bottom edge. *)
C9_Witness ==
    /\ Len(trace) >= 2
    /\ PrevStep.op = "DXYN"
    /\ LastStep.op = "DXYN"
    /\ LastStep.opcode = PrevStep.opcode
    /\ LastStep.pre.I = PrevStep.pre.I
    /\ LastStep.pre.V[RegX(LastStep.opcode)]
           = PrevStep.pre.V[RegX(PrevStep.opcode)]
    /\ LastStep.pre.V[RegY(LastStep.opcode)]
           = PrevStep.pre.V[RegY(PrevStep.opcode)]
    /\ fault = "none"
    /\ LastStep.pre.screen # PrevStep.pre.screen
    /\ PrevStep.pre.screen # {}
    /\ FieldN(LastStep.opcode) = 5
    /\ \/ LastStep.pre.V[RegX(LastStep.opcode)] = 60
       \/ LastStep.pre.V[RegY(LastStep.opcode)] = 30
    /\ m_ScreenData = PrevStep.pre.screen

(* C10: FX29 sets I to 5 * (VX & 0xF), the address of the glyph of that hex
   digit (I = 50 for VX = 0xA), and after reset memory[50..54] holds
   F0 90 F0 90 90. *)
C10_FontAddress ==
    /\ (Len(trace) > 0 /\ LastStep.op = "FX29") =>
            m_AddressI = 5 * (LastStep.pre.V[RegX(LastStep.opcode)] % 16)
    /\ trace = << >> =>
            /\ m_GameMemory[50] = \hF0
            /\ m_GameMemory[51] = \h90
            /\ m_GameMemory[52] = \hF0
            /\ m_GameMemory[53] = \h90
            /\ m_GameMemory[54] = \h90


----------------------------------------------------------------------------
(* Properties of single steps.  Executes(name) holds of a step in which the
   interpreter runs one instruction that the switch dispatched to the handler
   name; StepWord is that instruction's word.  The unprimed variables are the
   state in which the instruction was fetched. *)

Executes(name) ==
    /\ Len(trace') = Len(trace) + 1
    /\ trace'[Len(trace')].op = name

StepWord == trace'[Len(trace')].opcode

(* C11: store BCD (FX33) with I + 2 inside the 4 KB memory 0x000-0xFFF:
   afterwards memory[I], memory[I+1], memory[I+2] are the hundreds, tens and
   units digit of VX, and no other memory byte, no register and not I is
   changed. *)
C11_StoreBCD ==
    [][(Executes("FX33") /\ m_AddressI + 2 <= \hFFF) =>
          LET v == m_Registers[RegX(StepWord)]
              i == m_AddressI
          IN  /\ \A a \in {i, i + 1, i + 2} : a \in DOMAIN m_GameMemory'
              /\ m_GameMemory'[i] = v \div 100
              /\ m_GameMemory'[i + 1] = (v \div 10) % 10
              /\ m_GameMemory'[i + 2] = v % 10
              /\ \A a \in DOMAIN m_GameMemory \ {i, i + 1, i + 2} :
                    m_GameMemory'[a] = m_GameMemory[a]
              /\ m_Registers' = m_Registers
              /\ m_AddressI' = m_AddressI]_vars


(* The words that are none of the defined instructions of their group *)
Undefined(w) ==
    LET group == w \div 4096
    IN  \/ group = 0 /\ w \notin { \h00E0, \h00EE }
        \/ group = 8 /\ (w % 16) \notin (0..7) \cup {14}
        \/ group = 14 /\ (w % 256) \notin { \h9E, \hA1 }
        \/ group = 15 /\ (w % 256) \notin { \h07, \h0A, \h15, \h18, \h1E, \h29,
                                           \h33, \h55, \h65 }

(* C12: executing a word that is not a defined instruction of group 0, 8, E
   or F changes only PC, which the fetch advanced by 2; registers, I, stack,
   memory, framebuffer and timers are unchanged. *)
C12_UndefinedIsNoOp ==
    [][(Len(trace') = Len(trace) + 1 /\ Undefined(StepWord)) =>
          /\ m_ProgramCounter' = m_ProgramCounter + 2
          /\ m_Registers' = m_Registers
          /\ m_AddressI' = m_AddressI
          /\ m_stack' = m_stack
          /\ m_GameMemory' = m_GameMemory
          /\ m_ScreenData' = m_ScreenData
          /\ m_DelayTimer' = m_DelayTimer
          /\ m_SoundTimer' = m_SoundTimer]_vars


NoKeyDown(keys) == \A i \in 0..(NumKeys - 1) : ~keys[i]

(* C13: key-wait (FX0A).  Executed while no key of the latch is pressed it
   leaves PC at its own address and every register unchanged, and the next
   instruction executed is the same FX0A again; executed while at least one
   key is pressed, VX receives the m_keyMappings entry of a key pressed at
   that time, the other registers keep their values and PC ends at the
   following instruction. *)
C13_KeyWait ==
    /\ (Len(trace) > 0 /\ LastStep.op = "FX0A") =>
            LET x == RegX(LastStep.opcode)
                pre == LastStep.pre
            IN  IF NoKeyDown(pre.keys)
                THEN m_ProgramCounter = pre.PC /\ m_Registers = pre.V
                ELSE /\ \E i \in 0..(NumKeys - 1) :
                            pre.keys[i] /\ m_Registers[x] = m_keyMappings[i]
                     /\ \A r \in 0..15 : r # x => m_Registers[r] = pre.V[r]
                     /\ m_ProgramCounter = pre.PC + 2
    /\ (/\ Len(trace) > 1
        /\ PrevStep.op = "FX0A"
        /\ NoKeyDown(PrevStep.pre.keys)) =>
            /\ LastStep.pre.PC = PrevStep.pre.PC
            /\ LastStep.opcode = PrevStep.opcode
            /\ LastStep.pre.V = PrevStep.pre.V

(* FX0A ran with no key down and stayed where it was; a key went down, and
   the FX0A that ran next took its mapping into VX and went on. *)
C13_Witness ==
    /\ Len(trace) > 1
    /\ PrevStep.op = "FX0A"
    /\ NoKeyDown(PrevStep.pre.keys)
    /\ LastStep.op = "FX0A"
    /\ LastStep.pre.PC = PrevStep.pre.PC
    /\ ~NoKeyDown(LastStep.pre.keys)
    /\ m_Registers[RegX(LastStep.opcode)] = 118
    /\ LastStep.pre.V[RegX(LastStep.opcode)] = 7
    /\ m_ProgramCounter = LastStep.pre.PC + 2


(* The process is gone: RunEmulator has returned from both joins, or the
   process was killed by a memory fault. *)
AllExited ==
    /\ main_pc = "done"
    /\ timer_pc = "exited"
    /\ key_pc = "exited"

(* C14: once ProgramRunning is false, under fair scheduling the interpreter
   loop (also while it re-executes a key-wait with no key pressed), the timer
   thread and the key thread each leave their loop, and RunEmulator reaches
   its end only after both other threads have exited.  ProgramRunning never
   goes back to true, so the threads all exit after a stop exactly if from
   some point on either no stop was signalled or all have exited.  A process
   killed by a memory fault has ended all three. *)
C14_Shutdown ==
    /\ [](main_pc = "done" => timer_pc = "exited" /\ key_pc = "exited")
    /\ [][~ProgramRunning => ~ProgramRunning']_vars
    /\ <>[](ProgramRunning \/ AllExited \/ fault = "crash")

(* The window was closed while the interpreter was re-executing a key-wait
   with no key pressed, and all three threads have exited. *)
C14_Witness ==
    /\ AllExited
    /\ ~ProgramRunning
    /\ window = "destroyed"
    /\ fault = "none"
    /\ Len(trace) > 1
    /\ PrevStep.op = "FX0A"
    /\ LastStep.op = "FX0A"
    /\ NoKeyDown(LastStep.pre.keys)
    /\ m_ProgramCounter = LastStep.pre.PC


----------------------------------------------------------------------------
(* Program loading: RunEmulator from its first line. The process has just
   started, so the globals hold their static initial values; CPUReset reads
   the file named on the command line. *)

(* A file of n bytes that starts with the given bytes and goes on with 1s. *)
Padded(bytes, n) ==
    [i \in 1..n |-> IF i <= Len(bytes) THEN bytes[i] ELSE 1]

LoadPrograms ==
    { << \h1FFE >>, << \hA000, \hD125, \hD125 >>, << \h6005, \hF015, \hF115 >> }

(* Sizes of the program file: a short one, and the sizes around what fits
   from 0x200 and around the 0xfff bytes fread asks for. *)
ImageSizes == {6, 3583, 3584, 3585, 4096}

(* What fopen finds: no file, or a file with these bytes. *)
Files ==
    { [missing |-> TRUE, bytes |-> << >>] } \cup
    { [missing |-> FALSE, bytes |-> Padded(Assemble(p), n)] :
          p \in LoadPrograms, n \in ImageSizes }

(* The number of bytes fread(&m_GameMemory[0x200], 0xfff, 1, in) takes from
   a file of n bytes (line 384): as many as the file has, at most 0xfff. *)
FreadCount(n) == IF n < \hFFF THEN n ELSE \hFFF

(* The addresses it writes them to. *)
FreadTarget(n) == ProgramStart .. (ProgramStart + FreadCount(n) - 1)

(* CPUReset(filename), lines 350-391, called at line 465, and the two
   threads started (lines 468-472). fopen's result is not tested: with no
   file, fread and fclose get a null pointer. Nothing compares the size of
   the file with the room from 0x200: what does not fit is written behind
   the array. *)
CPUResetOn(file) ==
    /\ main_pc = "reset"
    /\ fault # "crash"
    /\ ProgramRunning' = TRUE
    /\ m_AddressI' = 0
    /\ m_ProgramCounter' = ProgramStart
    /\ m_Registers' = [i \in 0..15 |-> 0]
    /\ m_KeysPressed' = [i \in 0..(NumKeys - 1) |-> FALSE]
    /\ IF file.missing
       THEN /\ m_GameMemory' =
                   [a \in 0..(MemSize - 1) |->
                       IF a < FontBytes THEN fontset[a + 1] ELSE m_GameMemory[a]]
            /\ access' = {}
            /\ fault' \in {"ub", "crash"}
       ELSE /\ m_GameMemory' =
                   [a \in 0..(MemSize - 1) |->
                       IF a >= ProgramStart
                          /\ a - ProgramStart < FreadCount(Len(file.bytes))
                       THEN file.bytes[a - ProgramStart + 1]
                       ELSE IF a < FontBytes THEN fontset[a + 1]
                       ELSE m_GameMemory[a]]
            /\ access' = FreadTarget(Len(file.bytes))
            /\ IF InMemory(ProgramStart + FreadCount(Len(file.bytes)) - 1)
                  \/ Len(file.bytes) = 0
               THEN fault' = fault
               ELSE fault' \in {"ub", "crash"}
    /\ main_pc' = IF fault' = "crash" THEN "reset" ELSE "while"
    /\ UNCHANGED << m_stack, m_ScreenData, m_DelayTimer, m_SoundTimer, window,
                    timer_pc, key_pc, ticks, events, trace >>

CPUReset == \E file \in Files : CPUResetOn(file)

InitLoad ==
    /\ m_GameMemory = [a \in 0..(MemSize - 1) |-> 0]
    /\ m_Registers = [i \in 0..15 |-> 0]
    /\ m_AddressI = 0
    /\ m_ProgramCounter = 0
    /\ m_stack = << >>
    /\ m_ScreenData = {}
    /\ m_KeysPressed = [i \in 0..(NumKeys - 1) |-> FALSE]
    /\ m_DelayTimer = 0
    /\ m_SoundTimer = 0
    /\ ProgramRunning = TRUE
    /\ window = "open"
    /\ fault = "none"
    /\ access = {}
    /\ main_pc = "reset"
    /\ timer_pc = "while"
    /\ key_pc = "while"
    /\ ticks = 0
    /\ events = 0
    /\ trace = << >>

NextLoad == CPUReset \/ LoopTest \/ RunEmulatorBody \/ FetchCrash \/ Present

SpecLoad == InitLoad /\ [][NextLoad]_vars

(* The interpreter is in its loop. *)
Running == main_pc \in {"while", "body", "present"}

(* C15: program loading. A file of exactly 4096 - 512 = 3584 bytes is
   copied in full to memory from 0x200 on and the interpreter goes on to
   run; a file one byte larger (or more), or a missing one, gives a load
   error: no byte is written outside the memory, nothing faults and the
   interpreter does not enter its loop. *)
C15_ProgramLoad ==
    [][\A file \in Files :
          CPUResetOn(file) =>
              IF ~file.missing /\ Len(file.bytes) <= 4096 - 512
              THEN Len(file.bytes) = 4096 - 512 =>
                       /\ \A i \in 1..Len(file.bytes) :
                              /\ InMemory(ProgramStart + i - 1)
                              /\ m_GameMemory'[ProgramStart + i - 1] = file.bytes[i]
                       /\ fault' = "none"
                       /\ Running'
              ELSE /\ \A a \in access' : InMemory(a)
                   /\ fault' = "none"
                   /\ ~Running']_vars


(* The instruction word is one of the group with this leading digit. *)
InGroup(w, digit) == w \div 4096 = digit

(* The instruction word is FXkk for this low byte kk. *)
IsFX(w, kk) == InGroup(w, 15) /\ w % 256 = kk

(* C16: per-instruction frame.  An instruction executed by the interpreter
   changes the framebuffer only if it is a draw (DXYN) or clear-screen
   (00E0), the delay timer only if it is FX15, the sound timer only if it is
   FX18, the call stack only if it is a call (2NNN) or a return (00EE), the
   memory only if it is FX33 or FX55, and never the key latch or the stop
   signal. *)
C16_Frame ==
    [][Len(trace') = Len(trace) + 1 =>
          LET w == StepWord
          IN  /\ m_ScreenData' # m_ScreenData => InGroup(w, 13) \/ w = \h00E0
              /\ m_DelayTimer' # m_DelayTimer => IsFX(w, \h15)
              /\ m_SoundTimer' # m_SoundTimer => IsFX(w, \h18)
              /\ m_stack' # m_stack => InGroup(w, 2) \/ w = \h00EE
              /\ m_GameMemory' # m_GameMemory => IsFX(w, \h33) \/ IsFX(w, \h55)
              /\ m_KeysPressed' = m_KeysPressed
              /\ ProgramRunning' = ProgramRunning]_vars


(* C17: clear-screen (00E0): whatever the framebuffer held, after the
   instruction every one of the 64 x 32 pixels is 0, and registers, I, stack,
   memory and timers are unchanged. *)
C17_ClearScreen ==
    [][(Len(trace') = Len(trace) + 1 /\ StepWord = \h00E0) =>
          /\ \A x \in 0..(ScreenCols - 1), y \in 0..(ScreenRows - 1) :
                 <<x, y>> \notin m_ScreenData'
          /\ m_Registers' = m_Registers
          /\ m_AddressI' = m_AddressI
          /\ m_stack' = m_stack
          /\ m_GameMemory' = m_GameMemory
          /\ m_DelayTimer' = m_DelayTimer
          /\ m_SoundTimer' = m_SoundTimer]_vars

C17_Witness ==
    /\ Len(trace) > 0
    /\ LastStep.opcode = \h00E0
    /\ LastStep.op = "00E0"
    /\ Cardinality(LastStep.pre.screen) > 4
    /\ m_ScreenData = {}
    /\ fault = "none"


(* The word is a conditional skip (3XNN, 4XNN, 5XY0, 9XY0) whose condition
   holds for the registers V. *)
TakenSkip(w, V) ==
    \/ InGroup(w, 3) /\ V[RegX(w)] = FieldNN(w)
    \/ InGroup(w, 4) /\ V[RegX(w)] # FieldNN(w)
    \/ InGroup(w, 5) /\ FieldN(w) = 0 /\ V[RegX(w)] = V[RegY(w)]
    \/ InGroup(w, 9) /\ FieldN(w) = 0 /\ V[RegX(w)] # V[RegY(w)]

(* The word is an instruction that does not transfer control: a register,
   index, timer, memory or display instruction other than the key-wait, or
   clear-screen. *)
NonControlTransfer(w) ==
    \/ w = \h00E0
    \/ \E g \in {6, 7, 8, 10, 12, 13} : InGroup(w, g)
    \/ InGroup(w, 15) /\ w % 256 # \h0A

(* C18: fetch.  With PC = A and both bytes of the word in m_GameMemory, the
   instruction word is memory[A] * 256 + memory[A+1] (high byte first), and
   PC is advanced by 2 before the instruction executes: a call (2NNN) at A
   pushes A + 2, a taken skip at A ends with PC = A + 4, and an instruction
   that does not transfer control ends with PC = A + 2. *)
C18_Fetch ==
    [][(/\ Len(trace') = Len(trace) + 1
        /\ InMemory(m_ProgramCounter) /\ InMemory(m_ProgramCounter + 1)
        /\ fault' # "crash") =>
          LET A == m_ProgramCounter
              w == StepWord
          IN  /\ w = m_GameMemory[A] * 256 + m_GameMemory[A + 1]
              /\ InGroup(w, 2) => m_stack' = Append(m_stack, A + 2)
              /\ TakenSkip(w, m_Registers) => m_ProgramCounter' = A + 4
              /\ NonControlTransfer(w) => m_ProgramCounter' = A + 2]_vars

C18_Witness ==
    /\ Len(trace) > 0
    /\ LastStep.opcode = \h2204
    /\ LastStep.op = "2NNN"
    /\ m_stack = Append(LastStep.pre.stack, LastStep.pre.PC + 2)
    /\ m_ProgramCounter = \h204
    /\ fault = "none"


(* The word is one of the four conditional skips. *)
IsSkip(w) ==
    \/ InGroup(w, 3) \/ InGroup(w, 4)
    \/ (InGroup(w, 5) \/ InGroup(w, 9)) /\ FieldN(w) = 0

(* C19: conditional skips.  For all register values and immediates, 3XNN
   advances PC by an additional 2 iff VX = NN, 4XNN iff VX # NN, 5XY0 iff
   VX = VY, 9XY0 iff VX # VY; otherwise PC is left at the next instruction;
   no register is changed either way. *)
C19_ConditionalSkips ==
    (Len(trace) > 0 /\ fault # "crash" /\ IsSkip(LastStep.opcode)) =>
        /\ m_ProgramCounter =
              LastStep.pre.PC
              + (IF TakenSkip(LastStep.opcode, LastStep.pre.V) THEN 4 ELSE 2)
        /\ m_Registers = LastStep.pre.V


(* The pixels a sprite of n rows at I toggles when drawn at (vx, vy): bit c
   of a row counted from the most significant one, columns modulo 64, rows
   modulo 32. *)
SpritePixels(mem, i, n, vx, vy) ==
    { << (vx + c) % ScreenCols, (vy + r) % ScreenRows >> :
          << r, c >> \in { rc \in (0..(n - 1)) \X (0..7) :
                             (mem[i + rc[1]] \div (2 ^ (7 - rc[2]))) % 2 = 1 } }

(* C20: draw (DXYN) against a reference.  With the sprite rows inside the
   memory, exactly the pixels at column (VX + c) mod 64, row (VY + r) mod 32
   for the set bits c (most significant first) of memory[I + r], r < N, are
   toggled and no other pixel changes; afterwards VF = 1 iff one of them went
   from 1 to 0, else VF = 0.  X or Y may be register F. *)
C20_DrawReference ==
    [][(/\ Len(trace') = Len(trace) + 1
        /\ InGroup(StepWord, 13)
        /\ \A r \in 0..(FieldN(StepWord) - 1) : InMemory(m_AddressI + r)
        /\ InMemory(m_ProgramCounter) /\ InMemory(m_ProgramCounter + 1)) =>
          LET w == StepWord
              toggled == SpritePixels(m_GameMemory, m_AddressI, FieldN(w),
                                      m_Registers[RegX(w)], m_Registers[RegY(w)])
          IN  /\ fault' = fault
              /\ m_ScreenData' = (m_ScreenData \ toggled) \cup (toggled \ m_ScreenData)
              /\ m_Registers'[VF] = IF toggled \cap m_ScreenData # {} THEN 1 ELSE 0]_vars


(* C21: shifts with X # F.  For every value v of the shifted register VX,
   shift right (8XY6) leaves VF = v mod 2 and VX = v div 2; shift left
   (8XYE) leaves VF = v div 128 and VX = (2 * v) mod 256. *)
C21_Shifts ==
    (/\ Len(trace) > 0
     /\ fault # "crash"
     /\ InGroup(LastStep.opcode, 8)
     /\ FieldN(LastStep.opcode) \in {6, 14}
     /\ RegX(LastStep.opcode) # VF) =>
        LET x == RegX(LastStep.opcode)
            v == LastStep.pre.V[x]
        IN  IF FieldN(LastStep.opcode) = 6
            THEN m_Registers[VF] = v % 2 /\ m_Registers[x] = v \div 2
            ELSE m_Registers[VF] = v \div 128 /\ m_Registers[x] = (2 * v) % 256


(* C22: register dump and load.  FX55 with I..I+X inside the memory writes
   memory[I+i] = Vi for every i <= X, changes no other memory byte and not
   I; an FX65 with the same X and I, run after a register was overwritten,
   gives every one of V0..VX its dumped value back, leaves the registers
   above VX as they were, and does not change I. *)
C22_DumpLoadRoundTrip ==
    /\ [][(/\ Len(trace') = Len(trace) + 1
           /\ IsFX(StepWord, \h55)
           /\ InMemory(m_AddressI + RegX(StepWord))) =>
             /\ \A a \in DOMAIN m_GameMemory :
                    m_GameMemory'[a] =
                        IF a \in m_AddressI .. (m_AddressI + RegX(StepWord))
                        THEN m_Registers[a - m_AddressI]
                        ELSE m_GameMemory[a]
             /\ m_AddressI' = m_AddressI]_vars
    /\ [](( /\ Len(trace) = 3
            /\ fault = "none"
            /\ IsFX(trace[1].opcode, \h55)
            /\ InGroup(trace[2].opcode, 6)
            /\ IsFX(trace[3].opcode, \h65)
            /\ RegX(trace[3].opcode) = RegX(trace[1].opcode)
            /\ InMemory(trace[1].pre.I + RegX(trace[1].opcode)) ) =>
              /\ \A i \in 0..15 :
                     m_Registers[i] = IF i <= RegX(trace[1].opcode)
                                      THEN trace[1].pre.V[i]
                                      ELSE trace[3].pre.V[i]
              /\ trace[3].pre.I = trace[1].pre.I
              /\ m_AddressI = trace[1].pre.I)


(* C23: randomize (CXNN).  VX is (r mod 256) AND NN for a value r of the
   random source, so VX has no bit set that is clear in NN (NN = 0 gives
   VX = 0); every other register, VF included, is unchanged. *)
C23_Randomize ==
    (Len(trace) > 0 /\ fault # "crash" /\ InGroup(LastStep.opcode, 12)) =>
        LET x == RegX(LastStep.opcode)
            nn == FieldNN(LastStep.opcode)
        IN  /\ \E r \in Byte : m_Registers[x] = BitAnd(r, nn)
            /\ BitAnd(m_Registers[x], nn) = m_Registers[x]
            /\ nn = 0 => m_Registers[x] = 0
            /\ \A i \in 0..15 : i # x => m_Registers[i] = LastStep.pre.V[i]


----------------------------------------------------------------------------
(* Program loading in src/unnamed/part_000: CPUReset (lines 281-291) sets I,
   PC and the registers and reads the file; it copies no font table, and
   the file has no timers, keys or stop flag to reset. *)

FilesP0 ==
    Files \cup { [missing |-> FALSE, bytes |-> Assemble(p)] : p \in Programs }

CPUResetOn_p0(file) ==
    /\ main_pc = "reset"
    /\ fault # "crash"
    /\ m_AddressI' = 0
    /\ m_ProgramCounter' = ProgramStart
    /\ m_Registers' = [i \in 0..15 |-> 0]
    /\ IF file.missing
       THEN /\ m_GameMemory' = m_GameMemory
            /\ access' = {}
            /\ fault' \in {"ub", "crash"}
       ELSE /\ m_GameMemory' =
                   [a \in 0..(MemSize - 1) |->
                       IF a >= ProgramStart
                          /\ a - ProgramStart < FreadCount(Len(file.bytes))
                       THEN file.bytes[a - ProgramStart + 1]
                       ELSE m_GameMemory[a]]
            /\ access' = FreadTarget(Len(file.bytes))
            /\ IF InMemory(ProgramStart + FreadCount(Len(file.bytes)) - 1)
                  \/ Len(file.bytes) = 0
               THEN fault' = fault
               ELSE fault' \in {"ub", "crash"}
    /\ main_pc' = IF fault' = "crash" THEN "reset" ELSE "body"
    /\ UNCHANGED << m_stack, m_ScreenData, m_KeysPressed, m_DelayTimer,
                    m_SoundTimer, ProgramRunning, window, timer_pc, key_pc,
                    ticks, events, trace >>

CPUReset_p0 == \E file \in FilesP0 : CPUResetOn_p0(file)

NextLoadP0 == CPUReset_p0 \/ RunEmulatorBody_p0 \/ FetchCrash_p0

SpecLoadP0 == InitLoad /\ [][NextLoadP0]_vars

(* C24: loaded state.  When CPUReset has returned and nothing is fetched
   yet, PC = 0x200, I = 0, all 16 registers are 0, the call stack is empty,
   every framebuffer pixel is 0, both timers are 0, all 16 keys are
   released, the running flag is set, and memory[0x000..0x04F] holds the
   80-byte font table. *)
C24_LoadedState ==
    (main_pc # "reset" /\ trace = << >> /\ fault = "none") =>
        /\ m_ProgramCounter = ProgramStart
        /\ m_AddressI = 0
        /\ \A i \in 0..15 : m_Registers[i] = 0
        /\ m_stack = << >>
        /\ m_ScreenData = {}
        /\ m_DelayTimer = 0
        /\ m_SoundTimer = 0
        /\ \A k \in 0..(NumKeys - 1) : ~m_KeysPressed[k]
        /\ ProgramRunning
        /\ \A a \in 0..(FontBytes - 1) : m_GameMemory[a] = fontset[a + 1]


(* C25: window lifetime across threads.  The interpreter thread never
   presents the framebuffer (loadSurfaceFromMatrix, SDL_UpdateWindowSurface
   after a draw) once the input thread has destroyed the window and shut SDL
   down on a quit event. *)
C25_PresentOnLiveWindow ==
    [][(main_pc = "present" /\ main_pc' # "present") => window = "open"]_vars


(* The key symbol, as the char the map is indexed with, is one of the 16
   keys of key_to_index. *)
Mapped(sym) == \E i \in 0..(NumKeys - 1) : m_keyMappings[i] = sym % 256

(* C26: key mapping.  A key-down or key-up event for a physical key that is
   not one of the 16 mapped keys leaves every latch entry unchanged; latch
   entry k changes only on an event for the physical key mapped to k. *)
C26_KeyMapping ==
    [][/\ \A key \in PhysicalKeys :
              ((KeyDownOn(key) \/ KeyUpOn(key)) /\ ~Mapped(key)) =>
                  m_KeysPressed' = m_KeysPressed
       /\ \A k \in 0..(NumKeys - 1) :
              m_KeysPressed'[k] # m_KeysPressed[k] =>
                  \E key \in PhysicalKeys :
                      /\ Mapped(key)
                      /\ m_keyMappings[k] = key % 256
                      /\ KeyDownOn(key) \/ KeyUpOn(key)]_vars


(* C27: latch index range.  The key tests EX9E and EXA1 index the 16-entry
   latch m_KeysPressed with an index in 0..15 for every value of VX, and the
   skip is decided by the pressed state of that entry: EX9E skips iff the
   key is pressed, EXA1 iff it is not. *)
C27_LatchIndexInRange ==
    (/\ Len(trace) > 0
     /\ fault # "crash"
     /\ InGroup(LastStep.opcode, 14)
     /\ FieldNN(LastStep.opcode) \in { \h9E, \hA1 }) =>
        LET k == LastStep.pre.V[RegX(LastStep.opcode)]
            pressed == LastStep.pre.keys[k]
            skips == IF FieldNN(LastStep.opcode) = \h9E THEN pressed ELSE ~pressed
        IN  /\ k \in 0..(NumKeys - 1)
            /\ fault = LastStep.pre.fault
            /\ m_ProgramCounter = LastStep.pre.PC + (IF skips THEN 4 ELSE 2)

====
